---------------------------- MODULE Spec2Model ----------------------------
(***************************************************************************)
(* Model of cea/technologies/chiller_vapor_compression.py:                 *)
(*   calc_VCC       operating point of the vapor-compression chiller       *)
(*   calc_Cinv_VCC  annualized investment and fixed O&M cost               *)
(* Both are functions of their arguments (calc_Cinv_VCC also of the cost   *)
(* table it reads).  A behaviour is one call: Init draws the arguments,    *)
(* one action per branch of the called function computes the outcome.      *)
(* Python floats are modelled as exact rationals (rounding is abstracted); *)
(* a raised exception is an outcome of its own.                            *)
(***************************************************************************)
EXTENDS Integers, Sequences, FiniteSets, TLC

VARIABLES
    fn,               \* the function called
    pc,               \* "call" before the body runs, "done" after
    mdot_kgpers,      \* calc_VCC argument
    T_sup_K,          \* calc_VCC argument
    T_re_K,           \* calc_VCC argument
    qcold_W,          \* calc_Cinv_VCC argument
    technology,       \* calc_Cinv_VCC argument
    sheet_exists,     \* whether the "Chiller" sheet of the region's file can be read
    VCC_cost_data,    \* the rows of that sheet
    technology_code,  \* list(set(VCC_cost_data['code'])) as built by the call
    result            \* what the call returned or raised

vars == <<fn, pc, mdot_kgpers, T_sup_K, T_re_K, qcold_W, technology,
          sheet_exists, VCC_cost_data, technology_code, result>>

---------------------------------------------------------------------------
(* Bounds of the model *)

\* largest number of rows of a cost table
MaxRows == 2

\* largest cap_min of a row; cap_max goes one further
MaxCap == 3

---------------------------------------------------------------------------
(* Small exact rationals <<n, d>>, d > 0, in lowest terms (cost side) *)

RECURSIVE GCD(_, _)
GCD(x, y) == IF y = 0 THEN x ELSE GCD(y, x % y)

Abs(x) == IF x < 0 THEN -x ELSE x

Frac(n, d) ==
    LET s == IF d < 0 THEN -1 ELSE 1
        g == GCD(Abs(n), Abs(d))
    IN  <<(s * n) \div g, (s * d) \div g>>

FInt(n) == <<n, 1>>

FAdd(x, y) == Frac(x[1] * y[2] + y[1] * x[2], x[2] * y[2])

FSub(x, y) == Frac(x[1] * y[2] - y[1] * x[2], x[2] * y[2])

FMul(x, y) == Frac(x[1] * y[1], x[2] * y[2])

FDiv(x, y) == Frac(x[1] * y[2], x[2] * y[1])

RECURSIVE FPow(_, _)
FPow(x, k) == IF k = 0 THEN FInt(1) ELSE FMul(x, FPow(x, k - 1))

RECURSIVE IPow(_, _)
IPow(x, k) == IF k = 0 THEN 1 ELSE x * IPow(x, k - 1)

---------------------------------------------------------------------------
(* Exact rationals of any size (operating side).  A natural number is the  *)
(* sequence of its digits to the base Base, lowest first, with no leading  *)
(* zero digit; a rational is [s |-> sign, n |-> |numerator|, d |-> the     *)
(* denominator], not reduced: two rationals are compared with QEq, QLess.  *)

\* digits are kept below Base so that a digit product fits a machine word
Base == 100 * 100

RECURSIVE BNat(_)
BNat(i) == IF i = 0 THEN <<>> ELSE <<i % Base>> \o BNat(i \div Base)

RECURSIVE Strip(_)
Strip(x) ==
    IF x = <<>> THEN <<>>
    ELSE IF x[Len(x)] = 0 THEN Strip(SubSeq(x, 1, Len(x) - 1)) ELSE x

Rest(x) == IF x = <<>> THEN <<>> ELSE Tail(x)

Low(x) == IF x = <<>> THEN 0 ELSE Head(x)

RECURSIVE BAddC(_, _, _)
BAddC(x, y, c) ==
    IF x = <<>> /\ y = <<>>
    THEN IF c = 0 THEN <<>> ELSE <<c>>
    ELSE <<(Low(x) + Low(y) + c) % Base>>
         \o BAddC(Rest(x), Rest(y), (Low(x) + Low(y) + c) \div Base)

BAdd(x, y) == Strip(BAddC(x, y, 0))

\* x - y for x >= y, with borrow b
RECURSIVE BSubB(_, _, _)
BSubB(x, y, b) ==
    IF x = <<>> THEN <<>>
    ELSE IF Low(x) - Low(y) - b < 0
         THEN <<Low(x) - Low(y) - b + Base>> \o BSubB(Rest(x), Rest(y), 1)
         ELSE <<Low(x) - Low(y) - b>> \o BSubB(Rest(x), Rest(y), 0)

BSub(x, y) == Strip(BSubB(x, y, 0))

\* -1, 0, 1 as x <, =, > y: the highest digit that differs decides
RECURSIVE BCmpAt(_, _, _)
BCmpAt(x, y, i) ==
    IF i = 0 THEN 0
    ELSE IF x[i] < y[i] THEN -1
    ELSE IF x[i] > y[i] THEN 1
    ELSE BCmpAt(x, y, i - 1)

BCmp(x, y) ==
    IF Len(x) < Len(y) THEN -1
    ELSE IF Len(x) > Len(y) THEN 1
    ELSE BCmpAt(x, y, Len(x))

RECURSIVE BMulDigit(_, _, _)
BMulDigit(x, k, c) ==
    IF x = <<>>
    THEN IF c = 0 THEN <<>> ELSE <<c>>
    ELSE <<(Head(x) * k + c) % Base>>
         \o BMulDigit(Tail(x), k, (Head(x) * k + c) \div Base)

RECURSIVE BMul(_, _)
BMul(x, y) ==
    IF x = <<>> \/ y = <<>> THEN <<>>
    ELSE LET high == BMul(Tail(x), y)
         IN  BAdd(Strip(BMulDigit(y, Head(x), 0)),
                  IF high = <<>> THEN <<>> ELSE <<0>> \o high)

\* x mod k for a digit k, from the highest digit down to digit i
RECURSIVE BModDigit(_, _, _, _)
BModDigit(x, k, i, r) ==
    IF i = 0 THEN r ELSE BModDigit(x, k, i - 1, (r * Base + x[i]) % k)

\* the digits of x div k for a digit k, from the highest digit down
RECURSIVE BDivDigitAt(_, _, _, _)
BDivDigitAt(x, k, i, r) ==
    IF i = 0 THEN <<>>
    ELSE BDivDigitAt(x, k, i - 1, (r * Base + x[i]) % k)
         \o <<(r * Base + x[i]) \div k>>

BDivDigit(x, k) == Strip(BDivDigitAt(x, k, Len(x), 0))

\* the factors a fraction is reduced by: those of the decimal constants,
\* of 303 and of 4187, and the small primes
SmallFactors ==
    <<Base, 16, 2, 625, 5, 3, 7, 11, 13, 17, 19, 23, 29, 31, 37, 41, 43, 47,
      53, 67, 79, 101>>

\* n / d with the factors of SmallFactors from position i on that n and d
\* share cancelled
RECURSIVE Reduce(_, _, _, _)
Reduce(s, n, d, i) ==
    IF n = <<>> THEN [s |-> 0, n |-> <<>>, d |-> <<1>>]
    ELSE IF i > Len(SmallFactors) THEN [s |-> s, n |-> n, d |-> d]
    ELSE IF /\ BModDigit(n, SmallFactors[i], Len(n), 0) = 0
            /\ BModDigit(d, SmallFactors[i], Len(d), 0) = 0
         THEN Reduce(s, BDivDigit(n, SmallFactors[i]),
                     BDivDigit(d, SmallFactors[i]), i)
         ELSE Reduce(s, n, d, i + 1)

Rat(s, n, d) == Reduce(s, n, d, 1)

\* the rational n / d of two machine integers, d > 0
Q(n, d) == Rat(IF n < 0 THEN -1 ELSE 1, BNat(Abs(n)), BNat(d))

QInt(n) == Q(n, 1)

QNeg(x) == Rat(-x.s, x.n, x.d)

QMul(x, y) == Rat(x.s * y.s, BMul(x.n, y.n), BMul(x.d, y.d))

\* 1 / x; x is not zero
QInv(x) == Rat(x.s, x.d, x.n)

QDiv(x, y) == QMul(x, QInv(y))

QAdd(x, y) ==
    LET l == BMul(x.n, y.d)
        r == BMul(y.n, x.d)
        d == BMul(x.d, y.d)
    IN  IF x.s = 0 THEN y
        ELSE IF y.s = 0 THEN x
        ELSE IF x.s = y.s THEN Rat(x.s, BAdd(l, r), d)
        ELSE IF BCmp(l, r) >= 0 THEN Rat(x.s, BSub(l, r), d)
        ELSE Rat(y.s, BSub(r, l), d)

QSub(x, y) == QAdd(x, QNeg(y))

QEq(x, y) == QSub(x, y).s = 0

QLess(x, y) == QSub(x, y).s = -1

---------------------------------------------------------------------------
(* Cost values.  A cost is poly + lncoef * ln(lnarg) with rational poly    *)
(* and lncoef: the cost curve is linear in log(qcold_W), and every later   *)
(* step multiplies by a rational.  ln(1) = 0: the form with lnarg = 1 has  *)
(* lncoef = 0.                                                             *)

Cost(poly, lncoef, lnarg) ==
    IF lnarg = 1 \/ lncoef[1] = 0
    THEN [poly |-> poly, lncoef |-> FInt(0), lnarg |-> 1]
    ELSE [poly |-> poly, lncoef |-> lncoef, lnarg |-> lnarg]

CostZero == Cost(FInt(0), FInt(0), 1)

CostScale(v, f) == Cost(FMul(v.poly, f), FMul(v.lncoef, f), v.lnarg)

---------------------------------------------------------------------------
(* The cost table *)

Codes == {"CH1", "CH2"}

\* the default of the parameter technology
DefaultTechnology == 1

\* One row of the sheet: the bracket and the technology code are free, the
\* cost parameters follow from them so that different rows give different
\* costs.
Row(code, lo, hi) ==
    [code |-> code, cap_min |-> lo, cap_max |-> hi,
     a |-> 10 * lo, b |-> IF code = "CH1" THEN 2 ELSE 3, c |-> 2,
     d |-> hi, e |-> 1,
     IR_pct |-> 5, LT_yr |-> IF code = "CH1" THEN 2 ELSE 1, OM_pct |-> 4]

\* the brackets [cap_min, cap_max) a row may carry
Brackets ==
    {br \in (1..MaxCap) \X (2..(MaxCap + 1)) : br[1] < br[2]}

Rows == {Row(code, br[1], br[2]) : code \in Codes, br \in Brackets}

Tables == UNION {[1..n -> Rows] : n \in 0..MaxRows}

Capacities == (-1)..(MaxCap + 1)

---------------------------------------------------------------------------
(* calc_Cinv_VCC *)

\* line 86
HasDemandAlsoZero(q) == q >= 0

HasDemand(q) == q > 0

\* line 88: set(VCC_cost_data['code'])
CodeSet(table) == {table[i].code : i \in 1..Len(table)}

\* line 88: list(set(...)): the order of a set's elements is not defined,
\* every order is an outcome
ListOfSet(S) ==
    {l \in [1..Cardinality(S) -> S] : {l[i] : i \in 1..Cardinality(S)} = S}

\* line 89: technology_code[technology]; "none" stands for IndexError
CodeAtWrapped(codes, tech) ==
    IF Len(codes) = 0 THEN "none" ELSE codes[(tech % Len(codes)) + 1]

CodeAt(codes, tech) ==
    IF tech < Len(codes) THEN codes[tech + 1] ELSE "none"

\* line 89: the comparison builds a filtered frame that is bound to no name;
\* VCC_cost_data is what it was
FilterByCode(table, code) == table

\* lines 93-94: VCC_cost_data['cap_min'][0] is the cap_min of the row
\* labelled 0, the first row of the sheet
ClampThreshold(table) == table[1].cap_min

Clamp(table, q) ==
    IF q < ClampThreshold(table) THEN ClampThreshold(table) ELSE q

\* line 96
InBracketClosed(row, q) == row.cap_min <= q /\ row.cap_max >= q

InBracket(row, q) == row.cap_min <= q /\ row.cap_max > q

\* line 96: the labels of the rows the mask keeps, in sheet order
Matching(table, q) == {i \in 1..Len(table) : InBracket(table[i], q)}

\* lines 97-104: iloc[0] of the filtered frame; 0 stands for IndexError
\* (single positional indexer is out-of-bounds)
FirstRowOrDefault(table, q) ==
    IF Matching(table, q) = {}
    THEN 1
    ELSE CHOOSE i \in Matching(table, q) : \A j \in Matching(table, q) : i <= j

FirstRow(table, q) ==
    IF Matching(table, q) = {}
    THEN 0
    ELSE CHOOSE i \in Matching(table, q) : \A j \in Matching(table, q) : i <= j

\* line 105
InvC(row, q) ==
    Cost(FInt(row.a + row.b * IPow(q, row.c)), FInt(row.d + row.e * q), q)

\* line 102
Inv_IR(row) == Frac(row.IR_pct, 100)

\* line 106: (1 + Inv_IR) ** Inv_LT
Growth(row) == FPow(FAdd(FInt(1), Inv_IR(row)), row.LT_yr)

\* line 106: the divisor; 0 raises ZeroDivisionError
CapexDivisor(row) == FSub(Growth(row), FInt(1))

\* line 106
Capex_a(row, q) ==
    CostScale(InvC(row, q),
              FDiv(FMul(Inv_IR(row), Growth(row)), CapexDivisor(row)))

\* line 107
Opex_fixed(row, q) == CostScale(Capex_a(row, q), Frac(row.OM_pct, 100))

Outcome(status, capex, opex, q, row, code) ==
    [status |-> status, Capex_a |-> capex, Opex_fixed |-> opex,
     qcold_W |-> q, row |-> row, code |-> code]

Raised(status, q, code) == Outcome(status, CostZero, CostZero, q, 0, code)

\* lines 87-107, for one order of the de-duplicated codes
Lookup(exists, table, q, tech, codes) ==
    IF ~exists THEN Raised("IOError", q, "none")
    ELSE IF CodeAt(codes, tech) = "none" THEN Raised("IndexError", q, "none")
    ELSE LET code == CodeAt(codes, tech)
             data == FilterByCode(table, code)
             qc   == Clamp(data, q)
             r    == FirstRow(data, qc)
         IN  IF r = 0 THEN Raised("IndexError", qc, code)
             ELSE IF CapexDivisor(data[r])[1] = 0
                  THEN Raised("ZeroDivisionError", qc, code)
                  ELSE Outcome("returned", Capex_a(data[r], qc),
                               Opex_fixed(data[r], qc), qc, r, code)

\* lines 110-113
NoCost(q) == Outcome("returned", CostZero, CostZero, q, 0, "none")

\* lines 86-113
calc_Cinv_VCC(exists, table, q, tech, codes) ==
    IF HasDemand(q) THEN Lookup(exists, table, q, tech, codes) ELSE NoCost(q)

---------------------------------------------------------------------------
(* calc_VCC *)

\* cea.constants: specific heat capacity of water, J/(kg K)
HEAT_CAPACITY_OF_WATER_JPERKGK == 4187

\* cea.optimization.constants: condenser water inlet temperature, K
VCC_T_COOL_IN == 303

\* line 50
T_cw_in_K == QInt(VCC_T_COOL_IN)

\* the empirical coefficients of lines 57 and 59
Coef_0_0201Em3 == Q(201, 10000000)

Coef_0_1980E3 == QInt(198)

Coef_168_1846E3 == Q(1681846, 10)

\* line 44
IsIdle(m) == m.s = 0

\* lines 59, 61, 63: a float division whose divisor is zero raises
\* ZeroDivisionError
ZeroDivisorIgnored(y) == FALSE

ZeroDivisor(y) == y.s = 0

\* line 49
q_chw_W(m, Ts, Tr) ==
    QMul(QMul(m, QInt(HEAT_CAPACITY_OF_WATER_JPERKGK)), QSub(Tr, Ts))

\* line 57
CoefANegated(q) == QNeg(QDiv(QMul(Coef_0_0201Em3, q), T_cw_in_K))

CoefA(q) == QDiv(QMul(Coef_0_0201Em3, q), T_cw_in_K)

\* line 58
CoefB(Tr) == QDiv(Tr, T_cw_in_K)

\* line 59
CoefC(Tr, q) ==
    QAdd(QDiv(QMul(Coef_0_1980E3, Tr), q),
         QDiv(QMul(Coef_168_1846E3, QSub(T_cw_in_K, Tr)),
              QMul(T_cw_in_K, q)))

\* line 61: (1 + C) / (B - A) - 1, the divisor of the COP
COPDivisor(A, B, C) ==
    QSub(QDiv(QAdd(QInt(1), C), QSub(B, A)), QInt(1))

\* line 63
PowerDraw(q, COP) == QDiv(q, COP)

\* line 64
HeatRejectedLessDuty(wdot, q) == QSub(wdot, q)

HeatRejected(wdot, q) == QAdd(wdot, q)

\* line 66, and the exception of a call that raises; divisions counts the
\* divisions carried out
Operation(status, wdot, qcw, divisions) ==
    [status |-> status, wdot_W |-> wdot, q_cw_W |-> qcw,
     divisions |-> divisions]

\* lines 49-64
Operate(m, Ts, Tr) ==
    LET q == q_chw_W(m, Ts, Tr)
        A == CoefA(q)
        B == CoefB(Tr)
        C == CoefC(Tr, q)
        x == COPDivisor(A, B, C)
        COP == QInv(x)
        wdot == PowerDraw(q, COP)
    IN  IF ZeroDivisor(q)
        THEN Operation("ZeroDivisionError", QInt(0), QInt(0), 2)
        ELSE IF ZeroDivisor(QSub(B, A))
        THEN Operation("ZeroDivisionError", QInt(0), QInt(0), 4)
        ELSE IF ZeroDivisor(x)
        THEN Operation("ZeroDivisionError", QInt(0), QInt(0), 5)
        ELSE IF ZeroDivisor(COP)
        THEN Operation("ZeroDivisionError", QInt(0), QInt(0), 6)
        ELSE Operation("returned", wdot, HeatRejected(wdot, q), 7)

\* lines 44-68
calc_VCC_Unguarded(m, Ts, Tr) == Operate(m, Ts, Tr)

calc_VCC(m, Ts, Tr) ==
    IF IsIdle(m)
    THEN Operation("returned", QInt(0), QInt(0), 0)
    ELSE Operate(m, Ts, Tr)

\* the arguments of the calls of calc_VCC
SupplyTemperatures == {Q(27715, 100), Q(28015, 100), Q(28315, 100)}

ReturnTemperatures == {Q(28015, 100), Q(28615, 100), QInt(303), QInt(310)}

MassFlows ==
    {QInt(0), Q(1, 10), QInt(1), QInt(10), QInt(100), QInt(1000),
     QInt(10000)}

\* the flow at which A = B, for T_re above T_sup
CriticalFlow(Ts, Tr) ==
    QDiv(QDiv(Tr, Coef_0_0201Em3),
         QMul(QInt(HEAT_CAPACITY_OF_WATER_JPERKGK), QSub(Tr, Ts)))

\* a negative duty and the return temperature at which (1 + C) / (B - A)
\* is 1 for it: 0.0000201 Q^2 + (T_cw - T_re) Q + 198 T_re T_cw
\* + 168184.6 (T_cw - T_re) = 0 solved for T_re; the supply is 20 K warmer
SingularDuty == Q(-11081906, 10)

SingularReturn ==
    QDiv(QAdd(QAdd(QMul(Coef_0_0201Em3, QMul(SingularDuty, SingularDuty)),
                   QMul(T_cw_in_K, SingularDuty)),
              QMul(Coef_168_1846E3, T_cw_in_K)),
         QSub(QAdd(SingularDuty, Coef_168_1846E3),
              QMul(Coef_0_1980E3, T_cw_in_K)))

SingularSupply == QAdd(SingularReturn, QInt(20))

SingularFlow ==
    QDiv(SingularDuty,
         QMul(QInt(HEAT_CAPACITY_OF_WATER_JPERKGK),
              QSub(SingularReturn, SingularSupply)))

---------------------------------------------------------------------------
(* The calls *)

NoResult == [status |-> "none"]

InitCinv ==
    /\ fn = "calc_Cinv_VCC"
    /\ pc = "call"
    /\ mdot_kgpers = QInt(0) /\ T_sup_K = QInt(0) /\ T_re_K = QInt(0)
    /\ qcold_W \in Capacities
    /\ technology \in {0, DefaultTechnology}
    /\ \/ sheet_exists = TRUE /\ VCC_cost_data \in Tables
       \/ sheet_exists = FALSE /\ VCC_cost_data = <<>>
    /\ technology_code = <<>>
    /\ result = NoResult

InitVCC ==
    /\ fn = "calc_VCC"
    /\ pc = "call"
    /\ \/ /\ T_sup_K \in SupplyTemperatures
          /\ T_re_K \in ReturnTemperatures
          /\ mdot_kgpers \in
                MassFlows \cup
                (IF QLess(T_sup_K, T_re_K)
                 THEN {CriticalFlow(T_sup_K, T_re_K)} ELSE {})
       \/ /\ T_sup_K = SingularSupply
          /\ T_re_K = SingularReturn
          /\ mdot_kgpers = SingularFlow
    /\ qcold_W = 0
    /\ technology = DefaultTechnology
    /\ sheet_exists = FALSE
    /\ VCC_cost_data = <<>>
    /\ technology_code = <<>>
    /\ result = NoResult

Init == InitVCC \/ InitCinv

\* calc_VCC, lines 44-46 and 66-68: no flow
VCC_Idle ==
    /\ fn = "calc_VCC" /\ pc = "call"
    /\ IsIdle(mdot_kgpers)
    /\ result' = calc_VCC(mdot_kgpers, T_sup_K, T_re_K)
    /\ pc' = "done"
    /\ UNCHANGED <<fn, mdot_kgpers, T_sup_K, T_re_K, qcold_W, technology,
                   sheet_exists, VCC_cost_data, technology_code>>

\* calc_VCC, lines 48-68
VCC_Operate ==
    /\ fn = "calc_VCC" /\ pc = "call"
    /\ ~IsIdle(mdot_kgpers)
    /\ result' = calc_VCC(mdot_kgpers, T_sup_K, T_re_K)
    /\ pc' = "done"
    /\ UNCHANGED <<fn, mdot_kgpers, T_sup_K, T_re_K, qcold_W, technology,
                   sheet_exists, VCC_cost_data, technology_code>>

\* calc_Cinv_VCC, lines 109-113: no demand, the table is not read
Cinv_NoDemand ==
    /\ fn = "calc_Cinv_VCC" /\ pc = "call"
    /\ ~HasDemand(qcold_W)
    /\ result' = calc_Cinv_VCC(sheet_exists, VCC_cost_data, qcold_W,
                               technology, technology_code)
    /\ pc' = "done"
    /\ UNCHANGED <<fn, mdot_kgpers, T_sup_K, T_re_K, qcold_W, technology,
                   sheet_exists, VCC_cost_data, technology_code>>

\* calc_Cinv_VCC, lines 86-107
Cinv_Lookup ==
    /\ fn = "calc_Cinv_VCC" /\ pc = "call"
    /\ HasDemand(qcold_W)
    /\ \E codes \in ListOfSet(CodeSet(VCC_cost_data)) :
          /\ technology_code' = IF sheet_exists THEN codes ELSE <<>>
          /\ result' = calc_Cinv_VCC(sheet_exists, VCC_cost_data, qcold_W,
                                     technology, codes)
    /\ pc' = "done"
    /\ UNCHANGED <<fn, mdot_kgpers, T_sup_K, T_re_K, qcold_W, technology,
                   sheet_exists, VCC_cost_data>>

Next == VCC_Idle \/ VCC_Operate \/ Cinv_NoDemand \/ Cinv_Lookup

Spec == Init /\ [][Next]_vars

---------------------------------------------------------------------------
(* The claims *)

CinvDone == fn = "calc_Cinv_VCC" /\ pc = "done"

VCCDone == fn = "calc_VCC" /\ pc = "done"

\* the call of calc_Cinv_VCC got past line 89: the sheet was read and
\* technology_code[technology] exists
PastSelection == CinvDone /\ qcold_W > 0 /\ result.code # "none"

Contains(row, q) == row.cap_min <= q /\ q < row.cap_max

SmallestCapMin ==
    CHOOSE c \in {VCC_cost_data[i].cap_min : i \in 1..Len(VCC_cost_data)} :
        \A i \in 1..Len(VCC_cost_data) : c <= VCC_cost_data[i].cap_min

\* C1: with Q_peak > 0 the table is filtered to the selected technology
\* code before it is read: the row whose cost parameters are used carries
\* the code technology_code[technology], and a capacity that was clamped is
\* the cap_min of a row of that code.
C1_OnlySelectedTechnology ==
    (PastSelection /\ result.status = "returned") =>
        /\ VCC_cost_data[result.row].code = technology_code[technology + 1]
        /\ result.qcold_W # qcold_W =>
              \E i \in 1..Len(VCC_cost_data) :
                  /\ VCC_cost_data[i].code = technology_code[technology + 1]
                  /\ VCC_cost_data[i].cap_min = result.qcold_W

\* C2: a Q_peak with 0 < Q_peak < the smallest cap_min of the table is
\* replaced by that smallest cap_min, and the outcome is the outcome of the
\* call with the smallest cap_min as capacity.
C2_ClampToSmallestCapMin ==
    (PastSelection /\ qcold_W < SmallestCapMin) =>
        /\ result.qcold_W = SmallestCapMin
        /\ result = calc_Cinv_VCC(sheet_exists, VCC_cost_data, SmallestCapMin,
                                  technology, technology_code)

C4_NoDemandNoCost ==
    (CinvDone /\ qcold_W <= 0) =>
        /\ result.status = "returned"
        /\ result.Capex_a = CostZero
        /\ result.Opex_fixed = CostZero

C4_Witness ==
    /\ CinvDone
    /\ qcold_W < 0
    /\ ~sheet_exists
    /\ result.status = "returned"

\* C5: with m = 0 the call returns wdot_W = 0 and q_cw_W = 0 for every
\* T_sup and T_re, and carries out no division.
C5_IdleIsZero ==
    (VCCDone /\ mdot_kgpers.s = 0) =>
        /\ result.status = "returned"
        /\ result.wdot_W.s = 0
        /\ result.q_cw_W.s = 0
        /\ result.divisions = 0

C5_Witness ==
    /\ VCCDone
    /\ mdot_kgpers.s = 0
    /\ QLess(T_re_K, T_sup_K)
    /\ result.status = "returned"

\* the evaporator duty m * c_p * (T_re - T_sup) of the call's arguments
Duty(m) ==
    QMul(QMul(m, QInt(HEAT_CAPACITY_OF_WATER_JPERKGK)),
         QSub(T_re_K, T_sup_K))

\* C6: for m > 0 and T_re > T_sup, when a result is returned, q_cw_W is
\* wdot_W plus the duty Q, and wdot_W is Q / COP with
\* COP = 1 / ((1 + C) / (B - A) - 1), that is
\* wdot_W * (B - A) = Q * ((1 + C) - (B - A)).
C6_EnergyBalance ==
    (/\ VCCDone
     /\ mdot_kgpers.s = 1
     /\ QLess(T_sup_K, T_re_K)
     /\ result.status = "returned") =>
        LET q == Duty(mdot_kgpers)
            BA == QSub(CoefB(T_re_K), CoefA(q))
        IN  /\ QEq(QSub(result.q_cw_W, result.wdot_W), q)
            /\ QEq(QMul(result.wdot_W, BA),
                   QMul(q, QSub(QAdd(QInt(1), CoefC(T_re_K, q)), BA)))

C6_Witness ==
    /\ VCCDone
    /\ QEq(mdot_kgpers, QInt(10))
    /\ QEq(T_sup_K, Q(28015, 100))
    /\ QEq(T_re_K, Q(28615, 100))
    /\ result.status = "returned"
    /\ result.wdot_W.s = 1

\* C7: with Q_peak > 0, when no row's bracket contains the capacity after
\* clamping, the call fails and returns no pair; a pair that is returned
\* was computed from a row whose bracket contains the capacity.
C7_NoBracketFails ==
    (CinvDone /\ qcold_W > 0) =>
        /\ (\A i \in 1..Len(VCC_cost_data) :
               ~Contains(VCC_cost_data[i], result.qcold_W))
           => result.status \in {"IOError", "IndexError"}
        /\ result.status = "returned" =>
              /\ result.row \in 1..Len(VCC_cost_data)
              /\ Contains(VCC_cost_data[result.row], result.qcold_W)

C7_Witness ==
    /\ PastSelection
    /\ \A i \in 1..Len(VCC_cost_data) : VCC_cost_data[i].cap_max <= qcold_W
    /\ result.status = "IndexError"

OtherFlows ==
    MassFlows \cup
    (IF QLess(T_sup_K, T_re_K)
     THEN {CriticalFlow(T_sup_K, T_re_K)} ELSE {})

Increases(m2) ==
    LET r2 == calc_VCC(m2, T_sup_K, T_re_K)
    IN  /\ result.status = "returned"
        /\ r2.status = "returned"
        /\ QLess(result.wdot_W, r2.wdot_W)
        /\ QLess(result.q_cw_W, r2.q_cw_W)

\* C9 as stated: for T_re > T_sup and flows 0 < m1 < m2, wdot_W and q_cw_W
\* are both smaller at m1 than at m2, also for flows at which A reaches or
\* exceeds B.
C9_MonotoneInFlow ==
    (VCCDone /\ mdot_kgpers.s = 1 /\ QLess(T_sup_K, T_re_K)) =>
        \A m2 \in OtherFlows : QLess(mdot_kgpers, m2) => Increases(m2)

\* C9 as amended: for T_sup < T_re <= T_cw_in and flows 0 < m1 < m2 with
\* A < B at m2, that is 0.0201E-3 * Q(m2) < T_re, both calls return and
\* wdot_W and q_cw_W are both smaller at m1 than at m2.
C9_MonotoneBelowCritical ==
    (/\ VCCDone
     /\ mdot_kgpers.s = 1
     /\ QLess(T_sup_K, T_re_K)
     /\ ~QLess(T_cw_in_K, T_re_K)) =>
        \A m2 \in OtherFlows :
            (/\ QLess(mdot_kgpers, m2)
             /\ QLess(QMul(Coef_0_0201Em3, Duty(m2)), T_re_K))
            => Increases(m2)

C9_Witness ==
    /\ VCCDone
    /\ QEq(mdot_kgpers, QInt(10))
    /\ QEq(T_sup_K, Q(28015, 100))
    /\ QEq(T_re_K, Q(28615, 100))
    /\ Increases(QInt(100))

\* C10: with Q_peak > 0 and a sheet that was read, the selector is a
\* position in the de-duplicated list of codes, and the call fails with an
\* index error when that position is not below the number of distinct
\* codes; so the default selector fails on every table of one code.
C10_SelectorOutOfRange ==
    (CinvDone /\ qcold_W > 0 /\ sheet_exists) =>
        /\ Len(technology_code) = Cardinality(CodeSet(VCC_cost_data))
        /\ technology >= Cardinality(CodeSet(VCC_cost_data)) =>
              /\ result.status = "IndexError"
              /\ result.code = "none"
        /\ technology < Cardinality(CodeSet(VCC_cost_data)) =>
              result.code = technology_code[technology + 1]

C10_Witness ==
    /\ CinvDone
    /\ sheet_exists
    /\ technology = DefaultTechnology
    /\ Cardinality(CodeSet(VCC_cost_data)) = 1
    /\ \E i \in 1..Len(VCC_cost_data) : Contains(VCC_cost_data[i], qcold_W)
    /\ result.status = "IndexError"

===========================================================================
